---- MODULE Spec2Model ----
(***************************************************************************)
(* check_qualys (src/check_qualys/src/main.rs): a Nagios-style probe that  *)
(* polls the SSL Labs "analyze" API for one domain until the assessment is *)
(* ready or the attempt budget is used up, and exits with a code derived   *)
(* from the grade of the first endpoint.                                   *)
(*                                                                         *)
(* The state is that of main(): the Status record threaded through the     *)
(* loop, the u8 attempt counter, the body in flight, the program counter,  *)
(* and what the environment observes (requests issued, sleeps, stdout,     *)
(* exit status, panic).                                                    *)
(***************************************************************************)
EXTENDS Integers, Sequences, FiniteSets, TLC

(***************************************************************************)
(* Bounds of the exploration.                                              *)
(***************************************************************************)
\* largest --attemps value explored with the full set of response bodies
MaxAttemps == 3
\* longest endpoints list of a response body
MaxEndpoints == 2
\* requests after which a session is no longer followed (reached only when
\* the u8 counter wraps)
MaxRequests == 258

(***************************************************************************)
(* Program constants.                                                      *)
(***************************************************************************)
\* cli.attemps and count are u8
U8Max == 255
\* Duration::from_secs(10)
PauseSecs == 10
\* exit status of a Rust process whose main thread panicked
PanicExitCode == 101

(***************************************************************************)
(* Option<T> and Result<T, E>: None / Err is the empty tuple, Some(x) /    *)
(* Ok(x) the one-element tuple.                                            *)
(***************************************************************************)
None == <<>>
Some(x) == <<x>>
is_some(o) == o # None
unwrap(o) == o[1]
\* Option<String>::as_deref().unwrap_or_default()
unwrap_or_default(o) == IF o = None THEN "" ELSE o[1]

(***************************************************************************)
(* enum State, #[strum(serialize_all = "UPPERCASE")], derive(EnumString):  *)
(* from_str matches the serialized names exactly (strum is case-sensitive  *)
(* unless ascii_case_insensitive is given, and it is not).                 *)
(***************************************************************************)
States == {"Dns", "Error", "InProgress", "Ready", "Unknown"}

State_from_str(s) ==
    CASE s = "DNS"         -> Some("Dns")
      [] s = "ERROR"       -> Some("Error")
      [] s = "IN_PROGRESS" -> Some("InProgress")
      [] s = "INPROGRESS"  -> Some("InProgress")
      [] s = "IN PROGRESS" -> Some("InProgress")
      [] s = "READY"       -> Some("Ready")
      [] s = "UNKNOWN"     -> Some("Unknown")
      [] OTHER             -> None

\* variant: Display ignoring the serialize attributes (the variant's own name)
State_to_string_variant_name(st) == st

\* derive(Display): the serialized name; for a variant with several serialize
\* attributes strum takes the longest, the last one among equally long ones.
State_to_string(st) ==
    CASE st = "Dns"        -> "DNS"
      [] st = "Error"      -> "ERROR"
      [] st = "InProgress" -> "IN PROGRESS"
      [] st = "Ready"      -> "READY"
      [] st = "Unknown"    -> "UNKNOWN"

(***************************************************************************)
(* enum Grade, derive(Display, EnumString).                                *)
(***************************************************************************)
Grades == {"APlus", "A", "AMinus", "B", "C", "D", "E", "F", "M", "T"}

Grade_from_str(s) ==
    CASE s = "A+" -> Some("APlus")
      [] s = "A"  -> Some("A")
      [] s = "A-" -> Some("AMinus")
      [] s = "B"  -> Some("B")
      [] s = "C"  -> Some("C")
      [] s = "D"  -> Some("D")
      [] s = "E"  -> Some("E")
      [] s = "F"  -> Some("F")
      [] s = "M"  -> Some("M")
      [] s = "T"  -> Some("T")
      [] OTHER    -> None

Grade_to_string(g) ==
    CASE g = "APlus"  -> "A+"
      [] g = "AMinus" -> "A-"
      [] OTHER        -> g

(***************************************************************************)
(* impl Default for Status                                                 *)
(***************************************************************************)
Status_default ==
    [ready |-> FALSE, status |-> "Unknown", error |-> None, grade |-> None,
     message |-> None, exit_code |-> 0]

(***************************************************************************)
(* Status::set_response.  The status string is parsed only when non-empty; *)
(* a string from_str rejects makes the function panic.                     *)
(***************************************************************************)
set_response_panics(response) ==
    response.status # "" /\ State_from_str(response.status) = None

\* variant: an empty status string is taken for an unknown status
set_response_empty_unknown(self, response) ==
    LET s1 == IF response.status # ""
              THEN [self EXCEPT !.status = unwrap(State_from_str(response.status))]
              ELSE [self EXCEPT !.status = "Unknown"]
    IN  IF s1.status = "Error"
        THEN [s1 EXCEPT !.message = response.status_message,
                        !.exit_code = 3,
                        !.ready = TRUE]
        ELSE IF s1.status \in {"InProgress", "Ready", "Dns"}
        THEN [s1 EXCEPT !.exit_code = 0, !.ready = FALSE]
        ELSE [s1 EXCEPT !.message = response.status_message,
                        !.exit_code = 3,
                        !.ready = TRUE]

set_response(self, response) ==
    LET s1 == IF response.status # ""
              THEN [self EXCEPT !.status = unwrap(State_from_str(response.status))]
              ELSE self
    IN  IF s1.status = "Error"
        THEN [s1 EXCEPT !.message = response.status_message,
                        !.exit_code = 3,
                        !.ready = TRUE]
        ELSE IF s1.status \in {"InProgress", "Ready", "Dns"}
        THEN [s1 EXCEPT !.exit_code = 0, !.ready = FALSE]
        ELSE [s1 EXCEPT !.message = response.status_message,
                        !.exit_code = 3,
                        !.ready = TRUE]

(***************************************************************************)
(* Status::set_ready                                                       *)
(***************************************************************************)
\* variant: ready only when the endpoint message itself parses as Ready
set_ready_parsed_only(self, status_message) ==
    IF State_from_str(status_message) # None
    THEN LET s1 == [self EXCEPT !.status = unwrap(State_from_str(status_message))]
         IN  IF s1.status = "Ready" THEN [s1 EXCEPT !.ready = TRUE] ELSE s1
    ELSE self

set_ready(self, status_message) ==
    LET s1 == IF State_from_str(status_message) # None
              THEN [self EXCEPT !.status = unwrap(State_from_str(status_message))]
              ELSE self
    IN  IF s1.status = "Ready" THEN [s1 EXCEPT !.ready = TRUE] ELSE s1

(***************************************************************************)
(* Status::set_exit_code.  The match runs only under grade.is_some(), so   *)
(* its wildcard arm is never taken.                                        *)
(***************************************************************************)
\* variant: A- grouped with A and A+
set_exit_code_aminus_ok(self) ==
    IF is_some(self.grade)
    THEN CASE unwrap(self.grade) \in {"A", "APlus", "AMinus"} ->
                  [self EXCEPT !.exit_code = 0]
           [] OTHER -> [self EXCEPT !.exit_code = 2]
    ELSE self

\* variant: the exit code grows with the rank of the grade
set_exit_code_ranked(self) ==
    IF is_some(self.grade)
    THEN CASE unwrap(self.grade) \in {"A", "APlus"} -> [self EXCEPT !.exit_code = 0]
           [] unwrap(self.grade) = "AMinus" -> [self EXCEPT !.exit_code = 1]
           [] unwrap(self.grade) \in {"B", "C"} -> [self EXCEPT !.exit_code = 2]
           [] unwrap(self.grade) \in {"D", "E"} -> [self EXCEPT !.exit_code = 3]
           [] OTHER -> [self EXCEPT !.exit_code = 4]
    ELSE self

set_exit_code(self) ==
    IF is_some(self.grade)
    THEN CASE unwrap(self.grade) \in {"A", "APlus"} -> [self EXCEPT !.exit_code = 0]
           [] unwrap(self.grade) = "AMinus" -> [self EXCEPT !.exit_code = 1]
           [] unwrap(self.grade) \in {"B", "C", "D", "E", "F", "M", "T"} ->
                  [self EXCEPT !.exit_code = 2]
           [] OTHER -> [self EXCEPT !.exit_code = 2]
    ELSE self

(***************************************************************************)
(* A response body is text.  It is modelled by what a JSON reader finds in *)
(* it: whether it is JSON at all, and the members of the top-level object  *)
(* under their wire (camelCase) names, each possibly missing.              *)
(***************************************************************************)
JsonBody(host, st, msg, eps) ==
    [json |-> TRUE, host |-> host, status |-> st, statusMessage |-> msg,
     endpoints |-> eps]

\* an HTML error page, a truncated document, ...
NotJson ==
    [json |-> FALSE, host |-> None, status |-> None, statusMessage |-> None,
     endpoints |-> None]

\* #[serde(rename_all = "camelCase")] struct Endpoint
Endpoint_deserialize(obj) ==
    [status_message |-> obj.statusMessage, grade |-> obj.grade]

\* serde_json::from_str::<Response>: host and status are required members,
\* statusMessage and endpoints are Option and default to None.
serde_json_from_str(body) ==
    IF body.json /\ body.host # None /\ body.status # None
    THEN Some([host |-> unwrap(body.host),
               status |-> unwrap(body.status),
               status_message |-> body.statusMessage,
               endpoints |-> IF body.endpoints = None THEN None
                             ELSE Some([i \in 1..Len(unwrap(body.endpoints)) |->
                                   Endpoint_deserialize(unwrap(body.endpoints)[i])])])
    ELSE None

(***************************************************************************)
(* process_response_body                                                   *)
(***************************************************************************)
\* variant: a missing endpoint also ends the session
endpoint_missing_terminal(self, diagnostic) ==
    [self EXCEPT !.exit_code = 3, !.status = "Error", !.error = Some(diagnostic),
                 !.ready = TRUE]

\* the two arms that find no first endpoint
endpoint_missing(self, diagnostic) ==
    [self EXCEPT !.exit_code = 3, !.status = "Error", !.error = Some(diagnostic)]

\* variant: the grade is overwritten by every endpoint, graded or not
inspect_endpoint_forgets(self, endpoint) ==
    LET grade == unwrap_or_default(endpoint.grade)
        status_message == unwrap_or_default(endpoint.status_message)
        s1 == set_ready(self, status_message)
        s2 == IF grade # ""
              THEN [s1 EXCEPT !.grade = Some(unwrap(Grade_from_str(grade)))]
              ELSE [s1 EXCEPT !.grade = None]
    IN  set_exit_code(s2)

\* the arm that inspects endpoints.first()
inspect_endpoint(self, endpoint) ==
    LET grade == unwrap_or_default(endpoint.grade)
        status_message == unwrap_or_default(endpoint.status_message)
        s1 == set_ready(self, status_message)
        s2 == IF grade # ""
              THEN [s1 EXCEPT !.grade = Some(unwrap(Grade_from_str(grade)))]
              ELSE s1
    IN  set_exit_code(s2)

\* "" when the call returns, else which unwrap / panic! fires
process_response_body_panic(body) ==
    LET decoded == serde_json_from_str(body) IN
    IF decoded = None THEN "json"
    ELSE LET response == unwrap(decoded) IN
         IF set_response_panics(response) THEN "status"
         ELSE IF /\ response.endpoints # None
                 /\ Len(unwrap(response.endpoints)) > 0
                 /\ unwrap_or_default(unwrap(response.endpoints)[1].grade) # ""
                 /\ Grade_from_str(
                        unwrap_or_default(unwrap(response.endpoints)[1].grade)) = None
              THEN "grade"
              ELSE ""

\* variant: the last endpoint of the list is inspected instead of the first
process_response_body_last(body, st) ==
    LET response == unwrap(serde_json_from_str(body))
        s1 == set_response(st, response)
    IN  IF response.endpoints # None
        THEN IF Len(unwrap(response.endpoints)) > 0
             THEN inspect_endpoint(s1, unwrap(response.endpoints)[
                                           Len(unwrap(response.endpoints))])
             ELSE endpoint_missing(s1, "Endpoint not ready")
        ELSE endpoint_missing(s1, "No endpoint")

process_response_body(body, st) ==
    LET response == unwrap(serde_json_from_str(body))
        s1 == set_response(st, response)
    IN  IF response.endpoints # None
        THEN IF Len(unwrap(response.endpoints)) > 0
             THEN inspect_endpoint(s1, unwrap(response.endpoints)[1])
             ELSE endpoint_missing(s1, "Endpoint not ready")
        ELSE endpoint_missing(s1, "No endpoint")

(***************************************************************************)
(* cli.domain.parse::<addr::DomainName>(): the outcome for the command     *)
(* lines explored (a name with a space or an empty label is rejected).     *)
(***************************************************************************)
Domains == {"qualys.com", "www.example.com", "bad domain", "a..b"}

\* variant: a name that does not parse falls back to the built-in default
DomainName_parse_or_default(s) ==
    IF s \in {"qualys.com", "www.example.com"} THEN Some(s)
    ELSE Some("www.example.com")

DomainName_parse(s) ==
    IF s \in {"qualys.com", "www.example.com"} THEN Some(s) ELSE None

\* Params::new(): the domain before main's own is parsed into it
Params_new == [domain |-> "www.example.com"]

(***************************************************************************)
(* The response bodies the service is made to return.  Endpoint 0 ranges   *)
(* over every message / grade pair for the canonical status strings; the   *)
(* other status spellings and the longer endpoint lists are paired with a  *)
(* few endpoints each.                                                     *)
(***************************************************************************)
CoreStatusStrings == {"", "DNS", "ERROR", "IN_PROGRESS", "READY", "UNKNOWN"}
InProgressSpellings == {"IN_PROGRESS", "INPROGRESS", "IN PROGRESS"}
OtherStatusStrings ==
    {"INPROGRESS", "IN PROGRESS", "in_progress", "inprogress", "In Progress",
     "Ready", "ready", "dns", "error", "FOO"}
StatusStrings == CoreStatusStrings \cup OtherStatusStrings

OverallMessages == {None, Some("Unable to resolve domain name")}
EndpointMessages ==
    {None, Some("Ready"), Some("READY"), Some("In progress"), Some("ERROR"),
     Some("DNS")}
GradeStrings == {"A+", "A", "A-", "B", "C", "D", "E", "F", "M", "T"}
EndpointGrades == {None, Some(""), Some("Z")} \cup {Some(g) : g \in GradeStrings}

EndpointObjects == [statusMessage : EndpointMessages, grade : EndpointGrades]
FewEndpointObjects ==
    [statusMessage : {Some("Ready"), Some("In progress")},
     grade : {None, Some("A"), Some("B")}]
\* an endpoint after the first
LaterEndpoint == [statusMessage |-> Some("Ready"), grade |-> Some("F")]

RECURSIVE Later(_)
Later(n) == IF n = 0 THEN <<>> ELSE <<LaterEndpoint>> \o Later(n - 1)

Bodies ==
    {NotJson, JsonBody(Some("h"), None, None, None)}
    \cup {JsonBody(Some("h"), Some(s), m, eps) :
            s \in StatusStrings, m \in OverallMessages, eps \in {None, Some(<<>>)}}
    \cup {JsonBody(Some("h"), Some(s), None, Some(<<e>>)) :
            s \in CoreStatusStrings, e \in EndpointObjects}
    \cup {JsonBody(Some("h"), Some(s), None, Some(<<e>>)) :
            s \in OtherStatusStrings, e \in FewEndpointObjects}
    \cup {JsonBody(Some("h"), Some(s), None, Some(<<e>> \o Later(n))) :
            s \in {"IN_PROGRESS", "READY"}, e \in FewEndpointObjects,
            n \in 1..(MaxEndpoints - 1)}

\* the bodies of a session whose attempt cap is beyond MaxAttemps
LongRunBodies ==
    {JsonBody(Some("h"), Some("IN_PROGRESS"), None, None),
     JsonBody(Some("h"), Some("IN_PROGRESS"), None,
              Some(<<[statusMessage |-> Some("In progress"), grade |-> None]>>)),
     JsonBody(Some("h"), Some("READY"), None,
              Some(<<[statusMessage |-> Some("Ready"), grade |-> Some("A")]>>))}

BodiesFor(attemps) == IF attemps > MaxAttemps THEN LongRunBodies ELSE Bodies

(***************************************************************************)
(* What a response is, for the histories the claims speak of.              *)
(***************************************************************************)
\* overall status in progress, endpoint 0 (if any) not reporting completion
InProgressResponse(body) ==
    /\ serde_json_from_str(body) # None
    /\ unwrap(body.status) \in InProgressSpellings
    /\ \/ body.endpoints = None
       \/ Len(unwrap(body.endpoints)) = 0
       \/ /\ Len(unwrap(body.endpoints)) > 0
          /\ unwrap(body.endpoints)[1].statusMessage \in {None, Some("In progress")}
          /\ unwrap(body.endpoints)[1].grade \in
                 {None, Some("")} \cup {Some(g) : g \in GradeStrings}

\* READY, endpoint 0 statusMessage "Ready" and grade "A"
CompletedResponse(body) ==
    /\ serde_json_from_str(body) # None
    /\ unwrap(body.status) = "READY"
    /\ body.endpoints # None
    /\ Len(unwrap(body.endpoints)) > 0
    /\ unwrap(body.endpoints)[1].statusMessage = Some("Ready")
    /\ unwrap(body.endpoints)[1].grade = Some("A")

\* what is kept of a reconciled response: status string, number of endpoints
Summary(body) ==
    [status |-> unwrap(body.status),
     endpoints |-> IF body.endpoints = None THEN None
                   ELSE Some(Len(unwrap(body.endpoints)))]

\* endpoint 0 is there and carries a non-empty grade string
CarriesGrade(body) ==
    /\ body.endpoints # None
    /\ Len(unwrap(body.endpoints)) > 0
    /\ unwrap(body.endpoints)[1].grade \notin {None, Some("")}

(***************************************************************************)
(* The state of main().                                                    *)
(***************************************************************************)
VARIABLES
    cli,                \* the parsed command line: domain, attemps
    status,             \* let mut status
    count,              \* let mut count (u8)
    api_response_body,  \* the body between get_api_body and process_response_body
    pc,                 \* where main is
    requests,           \* GET requests issued so far
    request_host,       \* host of the last request issued
    slept,              \* seconds slept since the last request
    stdout,             \* the grade line print_result wrote
    exit_status,        \* the exit status of the process, once it has one
    panic,              \* which panic ended the process, "" if none
    seen,               \* the responses processed so far, summarised
    last_response,      \* the response reconciled in this loop iteration:
                        \* its status string and how many endpoints it had
    reported_grade      \* the last non-empty grade string an endpoint 0 carried

vars == <<cli, status, count, api_response_body, pc, requests, request_host,
          slept, stdout, exit_status, panic, seen, last_response,
          reported_grade>>

Init ==
    /\ cli \in [domain : Domains, attemps : (0..MaxAttemps) \cup {U8Max}]
    /\ status = Status_default
    /\ count = 0
    /\ api_response_body = None
    /\ pc = "while"
    /\ requests = 0
    /\ request_host = None
    /\ slept = 0
    /\ stdout = None
    /\ exit_status = None
    /\ panic = ""
    /\ seen = "in_progress"
    /\ last_response = None
    /\ reported_grade = None

\* variant: the failure is reported and the loop carries on
Panic_swallowed(cause) ==
    /\ pc' = "while"
    /\ panic' = cause
    /\ exit_status' = exit_status

\* panic!: the process ends with the panic exit status
Panic(cause) ==
    /\ pc' = "panicked"
    /\ panic' = cause
    /\ exit_status' = Some(PanicExitCode)

\* variant: the loop test ignores ready
while_cond_always(st) == TRUE

\* while !status.ready
while_cond(st) == ~st.ready

\* if count > cli.attemps { break; }
break_cond(c, attemps) == c > attemps

\* exit(status.exit_code)
exit_code_of(st) == st.exit_code

\* count += 1 on a u8: an overflow panics when overflow checks are compiled in
\* (debug profile) and wraps around when they are not (release profile).
LoopEnter ==
    /\ pc = "while"
    /\ while_cond(status)
    /\ requests < MaxRequests
    /\ IF count = U8Max
       THEN \E overflow_checks \in BOOLEAN :
              IF overflow_checks
              THEN /\ Panic("overflow")
                   /\ UNCHANGED <<count, last_response>>
              ELSE /\ count' = 0
                   /\ pc' = "get"
                   /\ last_response' = None
                   /\ UNCHANGED <<panic, exit_status>>
       ELSE /\ count' = count + 1
            /\ pc' = "get"
            /\ last_response' = None
            /\ UNCHANGED <<panic, exit_status>>
    /\ UNCHANGED <<cli, status, api_response_body, requests, request_host,
                   slept, stdout, seen, reported_grade>>

LoopExit ==
    /\ pc = "while"
    /\ ~while_cond(status)
    /\ pc' = "finish"
    /\ UNCHANGED <<cli, status, count, api_response_body, requests,
                   request_host, slept, stdout, exit_status, panic, seen,
                   last_response, reported_grade>>

\* get_api_body: the domain is parsed, then the request is issued; a transport
\* error comes back as Err and main panics on it.
GetApiBody ==
    /\ pc = "get"
    /\ IF DomainName_parse(cli.domain) = None
       THEN /\ Panic("domain")
            /\ seen' = "other"
            /\ UNCHANGED <<api_response_body, requests, request_host, slept>>
       ELSE /\ requests' = requests + 1
            /\ request_host' = Some([Params_new EXCEPT
                                       !.domain = unwrap(DomainName_parse(cli.domain))].domain)
            /\ slept' = 0
            /\ \E result \in {None} \cup {Some(b) : b \in BodiesFor(cli.attemps)} :
                 IF result = None
                 THEN /\ Panic("transport")
                      /\ seen' = "other"
                      /\ UNCHANGED api_response_body
                 ELSE /\ api_response_body' = result
                      /\ pc' = "process"
                      /\ UNCHANGED <<panic, exit_status, seen>>
    /\ UNCHANGED <<cli, status, count, stdout, last_response, reported_grade>>

ProcessResponseBody ==
    /\ pc = "process"
    /\ LET body == unwrap(api_response_body) IN
       IF process_response_body_panic(body) # ""
       THEN /\ Panic(process_response_body_panic(body))
            /\ seen' = "other"
            /\ UNCHANGED <<status, last_response, reported_grade>>
       ELSE /\ status' = process_response_body(body, status)
            /\ pc' = "pause"
            /\ seen' = IF seen = "in_progress" /\ InProgressResponse(body)
                       THEN "in_progress"
                       ELSE IF seen = "in_progress" /\ CompletedResponse(body)
                       THEN "completed"
                       ELSE "other"
            /\ last_response' = Some(Summary(body))
            /\ reported_grade' = IF CarriesGrade(body)
                                 THEN unwrap(body.endpoints)[1].grade
                                 ELSE reported_grade
            /\ UNCHANGED <<panic, exit_status>>
    /\ api_response_body' = None
    /\ UNCHANGED <<cli, count, requests, request_host, slept, stdout>>

\* if !status.ready { thread::sleep(10 s) }
Pause ==
    /\ pc = "pause"
    /\ slept' = IF ~status.ready THEN slept + PauseSecs ELSE slept
    /\ pc' = "check"
    /\ UNCHANGED <<cli, status, count, api_response_body, requests,
                   request_host, stdout, exit_status, panic, seen,
                   last_response, reported_grade>>

CheckCount ==
    /\ pc = "check"
    /\ pc' = IF break_cond(count, cli.attemps) THEN "finish" ELSE "while"
    /\ UNCHANGED <<cli, status, count, api_response_body, requests,
                   request_host, slept, stdout, exit_status, panic, seen,
                   last_response, reported_grade>>

\* print_result(&status, &cli); exit(status.exit_code)
Finish ==
    /\ pc = "finish"
    /\ stdout' = IF is_some(status.grade)
                 THEN Some(Grade_to_string(unwrap(status.grade)))
                 ELSE None
    /\ exit_status' = Some(exit_code_of(status))
    /\ pc' = "exited"
    /\ UNCHANGED <<cli, status, count, api_response_body, requests,
                   request_host, slept, panic, seen, last_response,
                   reported_grade>>

Next ==
    \/ LoopEnter
    \/ LoopExit
    \/ GetApiBody
    \/ ProcessResponseBody
    \/ Pause
    \/ CheckCount
    \/ Finish

Spec == Init /\ [][Next]_vars

TypeOK ==
    /\ cli \in [domain : Domains, attemps : 0..U8Max]
    /\ status \in [ready : BOOLEAN, status : States,
                   error : {None, Some("No endpoint"), Some("Endpoint not ready")},
                   grade : {None} \cup {Some(g) : g \in Grades},
                   message : OverallMessages, exit_code : 0..3]
    /\ count \in 0..U8Max
    /\ pc \in {"while", "get", "process", "pause", "check", "finish", "exited",
               "panicked"}
    /\ requests \in 0..MaxRequests
    /\ slept \in {0, PauseSecs}
    /\ exit_status \in {None} \cup {Some(c) : c \in 0..3} \cup {Some(PanicExitCode)}
    /\ panic \in {"", "overflow", "domain", "transport", "json", "status", "grade"}
    /\ seen \in {"in_progress", "completed", "other"}
    /\ last_response \in
          {None} \cup {Some(r) : r \in [status : StatusStrings,
                                        endpoints : {None} \cup
                                            {Some(n) : n \in 0..MaxEndpoints}]}
    /\ reported_grade \in {None} \cup {Some(g) : g \in GradeStrings}

(***************************************************************************)
(* Vocabulary of the properties.                                           *)
(***************************************************************************)
\* the body being reconciled parses, and no panic fires while it is processed
Processing == pc = "process"
InFlight == unwrap(api_response_body)
WellFormed(body) == process_response_body_panic(body) = ""
StatusOf(body) == unwrap(body.status)
HasEndpoint0(body) == body.endpoints # None /\ Len(unwrap(body.endpoints)) > 0
Endpoint0(body) == unwrap(body.endpoints)[1]
NonErrorStatusStrings == {"DNS", "READY"} \cup InProgressSpellings

(***************************************************************************)
(* C1: a response with overall status ERROR, whatever its endpoints hold,  *)
(* ends the loop at that attempt with exit code 3.                         *)
(***************************************************************************)
C1_ErrorAlwaysExits3 ==
    [][(Processing /\ WellFormed(InFlight) /\ StatusOf(InFlight) = "ERROR")
          => (pc' = "pause" /\ status'.ready /\ status'.exit_code = 3)]_vars

(***************************************************************************)
(* C2: a READY / IN_PROGRESS / DNS response without a first endpoint.      *)
(***************************************************************************)
NoEndpointResponse(body) ==
    /\ WellFormed(body)
    /\ StatusOf(body) \in NonErrorStatusStrings
    /\ ~HasEndpoint0(body)

C3_ReadyIsTerminal ==
    [][status.ready => /\ status'.ready
                       /\ requests' = requests
                       /\ pc' \notin {"get", "process"}]_vars

\* a session that became ready on its first poll, with budget left, and ended
C3_Witness ==
    /\ pc = "exited"
    /\ status.ready
    /\ requests = 1
    /\ cli.attemps = MaxAttemps

(***************************************************************************)
(* C4: for any cap, a session that never becomes ready is over once the    *)
(* attempt count has exceeded the cap, and exits with the exit code of the *)
(* last reconciled state.                                                  *)
(***************************************************************************)
C4_CapEndsLoop ==
    /\ pc = "while" => requests <= cli.attemps
    /\ panic # "overflow"
    /\ pc = "exited" => exit_status = Some(status.exit_code)

(***************************************************************************)
(* C5: the number of requests of a session never exceeds --attemps.        *)
(***************************************************************************)
C5_RequestsWithinCap == requests <= cli.attemps

(***************************************************************************)
(* C6: n in-progress responses followed by READY / endpoint 0 "Ready" /    *)
(* grade "A", n + 1 within the cap: the in-progress polls do not end the   *)
(* loop, the completed one does, with ready and exit code 0, and no        *)
(* request follows it.                                                     *)
(***************************************************************************)
C6_InProgressThenReady ==
    /\ (seen = "in_progress" /\ requests < cli.attemps)
          => /\ ~status.ready
             /\ pc \in {"while", "get", "process", "pause", "check"}
             /\ count = IF pc = "get" THEN requests + 1 ELSE requests
    /\ (seen = "completed" /\ requests <= cli.attemps)
          => /\ status.ready
             /\ status.exit_code = 0
             /\ pc \in {"pause", "check", "while", "finish", "exited"}
             /\ count = requests
             /\ pc = "exited" => exit_status = Some(0)

\* [IN_PROGRESS, IN_PROGRESS, READY("Ready", "A")] ran to its end
C6_Witness ==
    /\ pc = "exited"
    /\ seen = "completed"
    /\ requests = 3
    /\ requests <= cli.attemps
    /\ exit_status = Some(0)

(***************************************************************************)
(* C7: endpoint 0 of a DNS / IN_PROGRESS / READY response reporting a      *)
(* grade gives the documented exit code.                                   *)
(***************************************************************************)
DocumentedExitCode(g) ==
    CASE g \in {"A+", "A"} -> 0
      [] g = "A-" -> 1
      [] g \in {"B", "C", "D", "E", "F", "M", "T"} -> 2

C7_GradeExitCode ==
    [][(/\ Processing
        /\ WellFormed(InFlight)
        /\ StatusOf(InFlight) \in NonErrorStatusStrings
        /\ HasEndpoint0(InFlight)
        /\ Endpoint0(InFlight).grade \in {Some(g) : g \in GradeStrings})
          => /\ pc' = "pause"
             /\ status'.exit_code =
                    DocumentedExitCode(unwrap(Endpoint0(InFlight).grade))]_vars

\* a non-error response graded A- has been reconciled
C7_Witness ==
    /\ pc = "pause"
    /\ status.status \in {"Dns", "InProgress", "Ready"}
    /\ status.grade = Some("AMinus")
    /\ status.exit_code = 1

(***************************************************************************)
(* C8: a non-error response whose endpoint 0 is present and ready and      *)
(* reports no grade, in a session that has reported none, gives exit       *)
(* code 2.                                                                 *)
(***************************************************************************)
C8_AbsentGradeExits2 ==
    [][(/\ Processing
        /\ WellFormed(InFlight)
        /\ StatusOf(InFlight) \in NonErrorStatusStrings
        /\ HasEndpoint0(InFlight)
        /\ Endpoint0(InFlight).statusMessage = Some("Ready")
        /\ Endpoint0(InFlight).grade \in {None, Some("")}
        /\ status.grade = None
        /\ status'.ready)
          => status'.exit_code = 2]_vars

(***************************************************************************)
(* The status matching the specification describes: case-insensitive, the  *)
(* three in-progress spellings being one status; anything else is unknown. *)
(***************************************************************************)
Uppercase(s) ==
    CASE s = "in_progress" -> "IN_PROGRESS"
      [] s = "inprogress"  -> "INPROGRESS"
      [] s = "In Progress" -> "IN PROGRESS"
      [] s = "Ready"       -> "READY"
      [] s = "ready"       -> "READY"
      [] s = "dns"         -> "DNS"
      [] s = "error"       -> "ERROR"
      [] OTHER             -> s

DocumentedStatus(s) ==
    CASE Uppercase(s) = "DNS" -> "Dns"
      [] Uppercase(s) = "ERROR" -> "Error"
      [] Uppercase(s) \in InProgressSpellings -> "InProgress"
      [] Uppercase(s) = "READY" -> "Ready"
      [] OTHER -> "Unknown"

Decodes(body) == serde_json_from_str(body) # None

(***************************************************************************)
(* C9: a non-empty status string that is none of the recognized values     *)
(* never aborts the program: it becomes Unknown, ready, exit code 3.       *)
(***************************************************************************)
C9_UnrecognizedStatusIsUnknown ==
    (/\ Processing
     /\ Decodes(InFlight)
     /\ StatusOf(InFlight) # ""
     /\ DocumentedStatus(StatusOf(InFlight)) = "Unknown")
       => LET response == unwrap(serde_json_from_str(InFlight)) IN
          /\ ~set_response_panics(response)
          /\ set_response(status, response).status = "Unknown"
          /\ set_response(status, response).ready
          /\ set_response(status, response).exit_code = 3

(***************************************************************************)
(* C10: every letter case of DNS, READY, ERROR and of the three            *)
(* in-progress spellings maps to its canonical status; the in-progress     *)
(* ones give exit code 0 and ready false before endpoint inspection.       *)
(***************************************************************************)
C10_StatusCaseInsensitive ==
    (/\ Processing
     /\ Decodes(InFlight)
     /\ DocumentedStatus(StatusOf(InFlight)) # "Unknown")
       => LET response == unwrap(serde_json_from_str(InFlight)) IN
          /\ ~set_response_panics(response)
          /\ set_response(status, response).status =
                 DocumentedStatus(StatusOf(InFlight))
          /\ DocumentedStatus(StatusOf(InFlight)) = "InProgress"
                => /\ set_response(status, response).exit_code = 0
                   /\ ~set_response(status, response).ready

(***************************************************************************)
(* C11: in every reachable state the exit code of the Status record is one *)
(* of 0, 1, 2, 3, and so is the exit status of a session that runs to its  *)
(* exit.                                                                   *)
(***************************************************************************)
C11_ExitCodeRange ==
    /\ status.exit_code \in {0, 1, 2, 3}
    /\ pc = "exited" => exit_status \in {Some(0), Some(1), Some(2), Some(3)}

\* a session that gave up on a grade F has exited with 2
C11_Witness ==
    /\ pc = "exited"
    /\ status.grade = Some("F")
    /\ ~status.ready
    /\ exit_status = Some(2)

(***************************************************************************)
(* C12: the status and the grade of the Status record, rendered to their   *)
(* string form and parsed back, give the same enum value; the grade line   *)
(* written at exit parses back to the grade.                               *)
(***************************************************************************)
C12_RoundTrip ==
    /\ State_from_str(State_to_string(status.status)) = Some(status.status)
    /\ status.grade # None
          => Grade_from_str(Grade_to_string(unwrap(status.grade))) = status.grade
    /\ (pc = "exited" /\ stdout # None)
          => Grade_from_str(unwrap(stdout)) = status.grade

\* a session that gave up in progress with grade A- printed
C12_Witness ==
    /\ pc = "exited"
    /\ status.status = "InProgress"
    /\ status.grade = Some("AMinus")
    /\ stdout = Some("A-")

(***************************************************************************)
(* C13: a transport failure, a body that is not conforming JSON or an      *)
(* unrecognized grade token in endpoint 0 aborts the session at that poll: *)
(* nothing follows, and no exit code 0..3 is reported.                     *)
(***************************************************************************)
FatalBody(body) ==
    \/ ~Decodes(body)
    \/ /\ HasEndpoint0(body)
       /\ Endpoint0(body).grade \notin
              {None, Some("")} \cup {Some(g) : g \in GradeStrings}

C13_FailuresAreFatal ==
    /\ [](panic \in {"transport", "json", "grade"}
             => /\ pc = "panicked"
                /\ exit_status = Some(PanicExitCode)
                /\ exit_status \notin {Some(0), Some(1), Some(2), Some(3)}
                /\ stdout = None)
    /\ [][/\ (Processing /\ FatalBody(InFlight))
               => (pc' = "panicked" /\ panic' \in {"json", "status", "grade"})
          /\ pc = "panicked" => (pc' = "panicked" /\ requests' = requests)]_vars

\* an unrecognized grade aborted the second poll of a session with budget left
C13_Witness ==
    /\ pc = "panicked"
    /\ panic = "grade"
    /\ requests = 2
    /\ cli.attemps = MaxAttemps

(***************************************************************************)
(* C14: no request is ever issued for a domain that does not parse, and    *)
(* the host of a request is the domain the user gave, never a substitute.  *)
(***************************************************************************)
C14_InvalidDomainNoRequest ==
    /\ [](/\ DomainName_parse(cli.domain) = None
               => /\ requests = 0
                  /\ request_host = None
                  /\ pc \in {"while", "get", "panicked"}
          /\ request_host # None => request_host = Some(cli.domain)
          /\ panic = "domain" => (pc = "panicked" /\ requests = 0))
    /\ [][(pc = "get" /\ cli.domain \in {"bad domain", "a..b"})
             => (pc' = "panicked" /\ panic' = "domain")]_vars

\* the session of an invalid domain has aborted without a request
C14_Witness ==
    /\ pc = "panicked"
    /\ panic = "domain"
    /\ cli.domain = "bad domain"
    /\ requests = 0

(***************************************************************************)
(* C15: for a DNS / IN_PROGRESS / READY response with an endpoint 0, ready *)
(* is true exactly when the statusMessage of endpoint 0 is "Ready".        *)
(***************************************************************************)
C15_ReadyIffEndpointReady ==
    [][(/\ Processing
        /\ WellFormed(InFlight)
        /\ StatusOf(InFlight) \in NonErrorStatusStrings
        /\ HasEndpoint0(InFlight))
          => (status'.ready <=> Endpoint0(InFlight).statusMessage = Some("Ready"))]_vars

(***************************************************************************)
(* C16: only endpoint 0 counts: a response and the same response with the  *)
(* endpoints after the first removed abort alike or reconcile to the same  *)
(* Status, from every state the loop reaches; the rest of the loop reads   *)
(* the Status only.                                                        *)
(***************************************************************************)
FirstOnly(body) == [body EXCEPT !.endpoints = Some(<<Endpoint0(body)>>)]

C16_FirstEndpointOnly ==
    (Processing /\ Decodes(InFlight) /\ HasEndpoint0(InFlight))
       => /\ process_response_body_panic(InFlight) =
                 process_response_body_panic(FirstOnly(InFlight))
          /\ WellFormed(InFlight)
                => process_response_body(InFlight, status) =
                       process_response_body(FirstOnly(InFlight), status)

\* a response with two endpoints has been reconciled: the grade is that of
\* endpoint 0 ("A"), not that of the later endpoint ("F")
C16_Witness ==
    /\ pc = "pause"
    /\ last_response # None
    /\ unwrap(last_response).endpoints = Some(2)
    /\ status.grade = Some("A")
    /\ requests = 1

(***************************************************************************)
(* C17: no sleep follows the last poll of a session, also when the session *)
(* ends because the cap was exceeded.                                      *)
(***************************************************************************)
C17_NoSleepAfterLastPoll == pc \in {"finish", "exited"} => slept = 0

(***************************************************************************)
(* C18: the grade of the Status record is that of the most recent response *)
(* whose endpoint 0 carried a non-empty grade string, absent if there was  *)
(* none; a response without such a grade leaves it alone, and when its     *)
(* endpoint 0 is present the exit code comes from the earlier grade.       *)
(***************************************************************************)
C18_GradePersists ==
    /\ [](/\ reported_grade = None => status.grade = None
          /\ reported_grade # None
                => /\ status.grade # None
                   /\ Grade_to_string(unwrap(status.grade)) = unwrap(reported_grade))
    /\ [][/\ (Processing /\ WellFormed(InFlight) /\ ~CarriesGrade(InFlight))
               => status'.grade = status.grade
          /\ (/\ Processing
              /\ WellFormed(InFlight)
              /\ HasEndpoint0(InFlight)
              /\ ~CarriesGrade(InFlight)
              /\ reported_grade # None)
               => status'.exit_code = DocumentedExitCode(unwrap(reported_grade))]_vars

\* a graded poll was followed by a poll without endpoints: the grade is kept
C18_Witness ==
    /\ pc = "pause"
    /\ requests = 2
    /\ last_response # None
    /\ unwrap(last_response).endpoints = None
    /\ status.grade = Some("A")
    /\ status.exit_code = 3

(***************************************************************************)
(* C19: the attempt counter never overflows: for every cap up to 255 it    *)
(* counts the polls, and the loop stops once it exceeds the cap.           *)
(***************************************************************************)
C19_CounterNeverOverflows ==
    /\ panic # "overflow"
    /\ pc \in {"get", "process", "pause", "check"} => count >= 1
    /\ requests <= cli.attemps + 1

(***************************************************************************)
(* C20: an empty status string leaves the status carried over from the     *)
(* previous poll in place, and ready / exit code are decided on it; on the *)
(* first poll (status Unknown) it ends the session with ready.             *)
(***************************************************************************)
C20_EmptyStatusKeepsState ==
    /\ []((Processing /\ Decodes(InFlight) /\ StatusOf(InFlight) = "")
            => LET s1 == set_response(status, unwrap(serde_json_from_str(InFlight)))
               IN  /\ s1.status = status.status
                   /\ status.status \in {"Error", "Unknown"}
                         => (s1.ready /\ s1.exit_code = 3)
                   /\ status.status \in {"Dns", "InProgress", "Ready"}
                         => (~s1.ready /\ s1.exit_code = 0))
    /\ [][(/\ Processing
           /\ WellFormed(InFlight)
           /\ StatusOf(InFlight) = ""
           /\ requests = 1)
             => (status'.ready /\ pc' = "pause")]_vars

\* a first response with an empty status has ended a session with budget left
C20_Witness ==
    /\ pc = "exited"
    /\ requests = 1
    /\ last_response # None
    /\ unwrap(last_response).status = ""
    /\ status.ready
    /\ cli.attemps = MaxAttemps

====
